---- MODULE Spec2Model ----
(***************************************************************************)
(* Fluid Horizon: the Gymnasium environment of src/environment.py          *)
(* (Ship, Obstacle, check_collision, FluidHorizonEnv) as a state machine,  *)
(* with the start of train.main (src/train.py) and evaluate_model          *)
(* (src/evaluate_mertrics.py, src/test_model.py).                          *)
(*                                                                         *)
(* Units.  GRAVITY is 0.5 and THRUST is -10, so ship.y and ship.velocity   *)
(* are always multiples of 0.5 and the float arithmetic on them is exact.  *)
(* They are kept here in half-pixels: y2 = 2*ship.y, v2 = 2*velocity.      *)
(* Everything else about geometry (obstacle x, gap centre, every           *)
(* pygame.Rect field) is an integer number of pixels, as in pygame.        *)
(* The observation is a vector of quotients; each component is kept as its *)
(* numerator over the fixed denominator the code divides by.  Rewards are  *)
(* kept in tenths (0.1 -> 1, 25.0 -> 250, -100.0 -> -1000).                *)
(***************************************************************************)
EXTENDS Integers, Sequences, FiniteSets

VARIABLES
    ship,             \* self.ship: made = FALSE models None
    obstacles,        \* self.obstacles, head first
    score,            \* self.score
    passed_obstacles, \* self.passed_obstacles
    observation,      \* observation computed by the last reset/step/_get_obs
    reward10,         \* reward computed by the last step, in tenths
    terminated,       \* terminated computed by the last step
    info,             \* info computed by the last reset/step
    lastOp,           \* the call made last
    pass_reward10,    \* local `reward` of step when the obstacle loop ends
    recycled,         \* history: obstacles popped since the last reset
    created,          \* history: Obstacle() calls since the last reset
    ticks,            \* history: step calls since the last reset
    reset_from,       \* history: what the state was when reset was called
    thrusts,          \* history: step calls with action 1 since the last reset
    render_mode,      \* self.render_mode: "human" or "none" (None)
    screen,           \* self.screen: "none" (None), "live", or "dead" (a
                      \* surface of a display that pygame.quit() has closed)
    display,          \* pygame's display, one per process: "closed" or "open"
    fonts,            \* the module-level FONT: "valid", or "stale" once
                      \* pygame.quit() has shut the font module down
    raised,           \* the last call raised instead of returning
    envB,             \* a second FluidHorizonEnv of the same process
    retB,             \* what the last call on the second environment gave
    solo,             \* the second environment run alone in a process of
                      \* its own, receiving the same calls
    drawn,            \* history: the values the `random` module has
                      \* produced in the shared process
    train,            \* the locals of train.main
    evaluation        \* the locals of evaluate_model

vars == <<ship, obstacles, score, passed_obstacles, observation, reward10,
          terminated, info, lastOp, pass_reward10, recycled, created, ticks,
          reset_from, thrusts, render_mode, screen, display, fonts, raised,
          envB, retB, solo, drawn, train, evaluation>>

\* the variables of the second environment and of its run alone
twinVars == <<envB, retB, solo, drawn>>

\* the variables of the scripts
scriptVars == <<train, evaluation>>

\* the simulation state and the values returned by the environment
simVars == <<ship, obstacles, score, passed_obstacles, observation, reward10,
             terminated, info, pass_reward10, recycled, created, ticks,
             reset_from, thrusts>>

---------------------------------------------------------------------------
(* Program constants, src/environment.py *)
WIDTH == 800
HEIGHT == 600
GRAVITY2 == 1
THRUST2 == -20
OBSTACLE_SPEED == 5
OBSTACLE_WIDTH == 80
GAP_HEIGHT == 200
SHIP_WIDTH == 40
SHIP_HEIGHT == 30
SHIP_X == 100
NUM_OBSTACLES == 5
PASS_REWARD10 == 250
SURVIVAL_REWARD10 == 1
COLLISION_REWARD10 == -1000
\* abs(THRUST * 1.5) = 15, the divisor of the velocity component
VEL_NORM == 15

(* Bounds of the exploration *)
\* Spec: long episodes of slow flights.  step calls explored per episode,
\* and the cap on |velocity| in half-pixels per tick
MaxTicks == 180
MaxSpeed2 == 14
\* SpecFlight: short episodes of fast flights
FlightTicks == 40
FlightSpeed2 == 36
\* SpecEnc: the longest obstacle list handed to the encoder
EncMaxLen == 3
\* SpecRender: step calls explored per episode
RenderTicks == 4
\* SpecTwo: step calls explored per episode of either environment, and the
\* number of values the shared generator is asked for
TwoTicks == 1
MaxDraws == 10
\* SpecTrain: the number of files in the checkpoint directory, and the
\* number of distinct modification times
MaxFiles == 3
MaxMtime == 2
\* SpecEval: the largest num_episodes and max_steps passed to evaluate_model
MaxEpisodes == 3
MaxEvalSteps == 3
\* SpecLive: one long episode of flights that thrust as late as they can
LiveTicks == 260
LiveSpeed2 == 10
\* the draw explored in SpecLive: the middle of randint's range
LiveGapChoices == {HEIGHT \div 2}
\* random.randint(GAP_HEIGHT // 2, HEIGHT - GAP_HEIGHT // 2) draws any of
\* lo..hi = 100..500; the draws explored are the two ends of that range
GapChoices == {GAP_HEIGHT \div 2, HEIGHT - GAP_HEIGHT \div 2}

---------------------------------------------------------------------------
(* Arithmetic helpers *)
Max(a, b) == IF a >= b THEN a ELSE b
Min(a, b) == IF a <= b THEN a ELSE b
Abs(a) == IF a >= 0 THEN a ELSE -a

\* pygame.Rect keeps ints: assigning the float self.y to rect.y truncates
\* toward zero.  y2 is in half-pixels.
RectInt(y2) == IF y2 >= 0 THEN y2 \div 2 ELSE -((-y2) \div 2)

---------------------------------------------------------------------------
(* Ship *)
NoShip == [made |-> FALSE, y2 |-> 0, v2 |-> 0, rect_y |-> 0]

\* Ship.__init__
NewShip == [made |-> TRUE, y2 |-> 2 * (HEIGHT \div 2), v2 |-> 0,
            rect_y |-> HEIGHT \div 2]

\* The clamp of Ship.update: it is applied to rect.y
ClampRectY(ry) == Max(0, Min(ry, HEIGHT - SHIP_HEIGHT))

\* mutant: the position moves by the old velocity, before gravity is added
ShipUpdate_PositionFirst(s, thrust_on) ==
    LET v == s.v2 + (IF thrust_on THEN THRUST2 ELSE 0) + GRAVITY2
        y == s.y2 + s.v2
    IN  [made |-> TRUE, y2 |-> y, v2 |-> v, rect_y |-> ClampRectY(RectInt(y))]

\* Ship.update(thrust_on)
ShipUpdate(s, thrust_on) ==
    LET v == s.v2 + (IF thrust_on THEN THRUST2 ELSE 0) + GRAVITY2
        y == s.y2 + v
    IN  [made |-> TRUE, y2 |-> y, v2 |-> v, rect_y |-> ClampRectY(RectInt(y))]

\* ship.rect
ShipRect(s) == [x |-> SHIP_X, y |-> s.rect_y, w |-> SHIP_WIDTH, h |-> SHIP_HEIGHT]

---------------------------------------------------------------------------
(* Obstacle *)
\* Obstacle.__init__(x) with gap_center_y drawn as c; id is the creation index
NewObstacle(x, c, id) == [id |-> id, x |-> x, gap_center_y |-> c, passed |-> FALSE]

\* mutant: update leaves the obstacle where it is
ObstacleUpdate_Still(o) == [o EXCEPT !.x = o.x]

\* Obstacle.update
ObstacleUpdate(o) == [o EXCEPT !.x = o.x - OBSTACLE_SPEED]

\* obs.top_rect and obs.bottom_rect (their x follows obs.x in update)
TopRect(o) == [x |-> o.x, y |-> 0, w |-> OBSTACLE_WIDTH,
               h |-> o.gap_center_y - GAP_HEIGHT \div 2]
BottomRect(o) == [x |-> o.x, y |-> o.gap_center_y + GAP_HEIGHT \div 2,
                  w |-> OBSTACLE_WIDTH, h |-> HEIGHT]

---------------------------------------------------------------------------
(* Collision *)
\* mutant: rectangles that only touch count as colliding
Colliderect_Closed(a, b) ==
    /\ a.x <= b.x + b.w
    /\ a.y <= b.y + b.h
    /\ a.x + a.w >= b.x
    /\ a.y + a.h >= b.y

\* pygame.Rect.colliderect: a zero-sized rect collides with nothing
Colliderect(a, b) ==
    /\ a.w # 0 /\ a.h # 0 /\ b.w # 0 /\ b.h # 0
    /\ a.x < b.x + b.w
    /\ a.y < b.y + b.h
    /\ a.x + a.w > b.x
    /\ a.y + a.h > b.y

\* the for loop of check_collision from index i on
RECURSIVE HitsFrom(_, _, _)
HitsFrom(s, obs, i) ==
    IF i > Len(obs) THEN FALSE
    ELSE IF Colliderect(ShipRect(s), TopRect(obs[i]))
            \/ Colliderect(ShipRect(s), BottomRect(obs[i]))
         THEN TRUE
         ELSE HitsFrom(s, obs, i + 1)

\* check_collision(ship, obstacles)
check_collision(s, obs) ==
    IF ShipRect(s).y <= 0 \/ ShipRect(s).y + ShipRect(s).h >= HEIGHT
    THEN TRUE
    ELSE HitsFrom(s, obs, 1)

---------------------------------------------------------------------------
(* Observation encoder *)
\* mutant: the scan takes an obstacle whose right edge is level with ship.x
RECURSIVE NextObstacleFrom_Level(_, _)
NextObstacleFrom_Level(obs, i) ==
    IF i > Len(obs) THEN 0
    ELSE IF obs[i].x + OBSTACLE_WIDTH >= SHIP_X THEN i
         ELSE NextObstacleFrom_Level(obs, i + 1)

\* the scan of _get_obs: index of the first obstacle with x + width > ship.x
\* from index i on, 0 when the loop ends without a break (next_obstacle None)
RECURSIVE NextObstacleFrom(_, _)
NextObstacleFrom(obs, i) ==
    IF i > Len(obs) THEN 0
    ELSE IF obs[i].x + OBSTACLE_WIDTH > SHIP_X THEN i
         ELSE NextObstacleFrom(obs, i + 1)

\* FluidHorizonEnv._get_obs; component k is num_k / den_k with
\* pos / (2 * (HEIGHT // 2)), vel / (2 * VEL_NORM), dist / WIDTH,
\* gap_y / (HEIGHT // 2), gap_h / HEIGHT
get_obs(s, obs) ==
    LET n == NextObstacleFrom(obs, 1)
    IN  [pos   |-> s.y2 - 2 * (HEIGHT \div 2),
         vel   |-> s.v2,
         dist  |-> IF n = 0 THEN WIDTH ELSE obs[n].x - SHIP_X,
         gap_y |-> IF n = 0 THEN 0 ELSE obs[n].gap_center_y - HEIGHT \div 2,
         gap_h |-> IF n = 0 THEN 0 ELSE GAP_HEIGHT]

\* FluidHorizonEnv._get_info
get_info(sc, po) == [score |-> sc, passed_obstacles |-> po]

NoObs == [pos |-> 0, vel |-> 0, dist |-> 0, gap_y |-> 0, gap_h |-> 0]

\* reset was not the last call
NoCall == [made |-> FALSE, score |-> 0, terminated |-> FALSE]

---------------------------------------------------------------------------
(* Display.  pygame is one per process: pygame.init() and the FONT are made
   at import, display.set_mode opens the one display, pygame.quit() closes it
   and shuts every pygame module down, for every object of the process. *)
\* mutant: render does not acquire the display it draws on
RenderOutcome_NoAcquire(mode, scr, fnt) ==
    IF mode # "human"
    THEN [screen |-> scr, opened |-> FALSE, raised |-> FALSE]
    ELSE [screen |-> scr, opened |-> FALSE,
          raised |-> scr # "live" \/ fnt = "stale"]

\* FluidHorizonEnv.render on an environment that has a ship: the screen it
\* leaves, whether it opened the display, and whether it raised.  Drawing on
\* the surface of a display that was quit raises pygame.error, and so does
\* FONT.render once the font module was quit after FONT was created.
RenderOutcome(mode, scr, fnt) ==
    IF mode # "human"
    THEN [screen |-> scr, opened |-> FALSE, raised |-> FALSE]
    ELSE LET acquired == IF scr = "none" THEN "live" ELSE scr
         IN  [screen |-> acquired, opened |-> scr = "none",
              raised |-> acquired = "dead" \/ fnt = "stale"]

\* mutant: close releases the display whether or not it holds a screen
CloseOutcome_Unguarded(scr) == [screen |-> "none", quit |-> TRUE]

\* FluidHorizonEnv.close: the screen it leaves and whether it called
\* pygame.quit()
CloseOutcome(scr) == [screen |-> "none", quit |-> scr # "none"]

\* what pygame.quit() called by another object does to a screen
AfterQuit(scr) == IF scr = "live" THEN "dead" ELSE scr

---------------------------------------------------------------------------
(* An environment as a value, for the second environment of a process *)
NoEnv == [exists |-> FALSE, render_mode |-> "none", screen |-> "none",
          ship |-> NoShip, obstacles |-> <<>>, score |-> 0,
          passed_obstacles |-> 0, ticks |-> 0, created |-> 0]

\* FluidHorizonEnv(render_mode = mode)
NewEnv(mode) == [NoEnv EXCEPT !.exists = TRUE, !.render_mode = mode]

NoRet == [op |-> "init", raised |-> FALSE, observation |-> NoObs,
          reward10 |-> 0, terminated |-> FALSE, info |-> get_info(0, 0)]

\* a process that holds one environment and its pygame
NoSolo == [env |-> NoEnv, ret |-> NoRet, display |-> "closed",
           fonts |-> "valid", pos |-> 0]

\* train.main and evaluate_model have not run
NoTrain == [pc |-> "off"]
NoEvaluation == [pc |-> "off"]

---------------------------------------------------------------------------
(* FluidHorizonEnv.__init__(render_mode = mode) in a fresh process; second
   is the other environment built in that process, NoEnv if there is none *)
InitEnv(mode, second) ==
    /\ render_mode = mode
    /\ screen = "none"
    /\ display = "closed"
    /\ fonts = "valid"
    /\ raised = FALSE
    /\ thrusts = 0
    /\ envB = second
    /\ retB = NoRet
    /\ solo = [NoSolo EXCEPT !.env = second]
    /\ drawn = <<>>
    /\ ship = NoShip
    /\ obstacles = <<>>
    /\ score = 0
    /\ passed_obstacles = 0
    /\ observation = NoObs
    /\ reward10 = 0
    /\ terminated = FALSE
    /\ info = get_info(0, 0)
    /\ lastOp = "init"
    /\ pass_reward10 = 0
    /\ recycled = {}
    /\ created = 0
    /\ ticks = 0
    /\ reset_from = NoCall

\* a process that runs neither train.main nor evaluate_model
InitProcess(mode, second) ==
    /\ InitEnv(mode, second)
    /\ train = NoTrain
    /\ evaluation = NoEvaluation

\* one environment in its process
InitWith(mode) == InitProcess(mode, NoEnv)

\* the headless environment train.py and evaluate_mertrics.py build
Init == InitWith("none")

\* the render call that ends reset and step, made when render_mode is
\* "human"
RenderCall ==
    LET r == RenderOutcome(render_mode, screen, fonts)
    IN  /\ screen' = r.screen
        /\ display' = IF r.opened THEN "open" ELSE display
        /\ raised' = r.raised
        /\ UNCHANGED fonts

\* the process-wide generator has produced the values cs; they are
\* recorded while a second environment exists
Draw(cs) == drawn' = IF envB.exists THEN drawn \o cs ELSE drawn

\* mutant: the initial obstacles are one obstacle width apart
InitialObstacles_Dense(cs) ==
    [i \in 1..NUM_OBSTACLES |->
        NewObstacle(WIDTH + (i - 1) * OBSTACLE_WIDTH, cs[i], i)]

\* mutant: the initial obstacles are a full screen width apart
InitialObstacles_Wide(cs) ==
    [i \in 1..NUM_OBSTACLES |->
        NewObstacle(WIDTH + (i - 1) * WIDTH, cs[i], i)]

\* the obstacles reset creates, with gap centres cs[1..NUM_OBSTACLES]
InitialObstacles(cs) ==
    [i \in 1..NUM_OBSTACLES |->
        NewObstacle(WIDTH + (i - 1) * (WIDTH \div 2), cs[i], i)]

\* mutant: reset encodes its observation before it creates the obstacles
ResetObservation_Early(s, obs) == get_obs(s, <<>>)

\* observation = self._get_obs() of reset, on the state reset has built
ResetObservation(s, obs) == get_obs(s, obs)

\* FluidHorizonEnv.reset, the generator drawing the gap centres from choices
ResetDrawing(choices) ==
    \E cs \in [1..NUM_OBSTACLES -> choices] :
        /\ ship' = NewShip
        /\ obstacles' = InitialObstacles(cs)
        /\ score' = 0
        /\ passed_obstacles' = 0
        /\ observation' = ResetObservation(ship', obstacles')
        /\ info' = get_info(score', passed_obstacles')
        /\ reward10' = 0
        /\ terminated' = FALSE
        /\ lastOp' = "reset"
        /\ pass_reward10' = 0
        /\ recycled' = {}
        /\ created' = NUM_OBSTACLES
        /\ ticks' = 0
        /\ reset_from' = [made |-> ship.made, score |-> score,
                          terminated |-> terminated]
        /\ thrusts' = 0
        /\ RenderCall
        /\ Draw(cs)
        /\ UNCHANGED <<render_mode, envB, retB, solo, scriptVars>>

\* FluidHorizonEnv.reset
Reset == ResetDrawing(GapChoices)

\* mutant: the pass test without the passed flag
NewlyPassed_NoFlag(o) == o.x + OBSTACLE_WIDTH < SHIP_X

\* the pass test of the obstacle loop, on an obstacle already moved
NewlyPassed(o) == o.x + OBSTACLE_WIDTH < SHIP_X /\ ~o.passed

\* the obstacle loop of step: every obstacle moves, then is tested
AdvanceAll(obs) ==
    [i \in 1..Len(obs) |->
        LET o == ObstacleUpdate(obs[i])
        IN  IF NewlyPassed(o) THEN [o EXCEPT !.passed = TRUE] ELSE o]

\* mutant: once a step has returned terminated, obstacles are not counted
PassCount_WhileAlive(obs) ==
    IF terminated THEN 0
    ELSE Cardinality({i \in 1..Len(obs) : NewlyPassed(ObstacleUpdate(obs[i]))})

\* how many obstacles the loop marked
PassCount(obs) ==
    Cardinality({i \in 1..Len(obs) : NewlyPassed(ObstacleUpdate(obs[i]))})

\* mutant: the head is recycled as soon as its left edge leaves the screen
HeadOffScreen_LeftEdge(obs) == Len(obs) > 0 /\ obs[1].x < 0

\* the recycling test of step
HeadOffScreen(obs) == Len(obs) > 0 /\ obs[1].x + OBSTACLE_WIDTH < 0

\* mutant: the new obstacle spawns at the right screen edge
Recycle_AtScreenEdge(obs, c, id) ==
    Append(Tail(obs), NewObstacle(WIDTH, c, id))

\* pop(0), then append Obstacle(self.obstacles[-1].x + WIDTH // 2)
Recycle(obs, c, id) ==
    LET rest == Tail(obs)
    IN  Append(rest, NewObstacle(rest[Len(rest)].x + WIDTH \div 2, c, id))

\* mutant: a step that earned pass rewards earns no survival reward
StepReward_PassOnly(collided, pr) ==
    IF collided THEN COLLISION_REWARD10
    ELSE IF pr > 0 THEN pr ELSE SURVIVAL_REWARD10

\* mutant: the penalty is added to what the step had accumulated
StepReward_Added(collided, pr) ==
    IF collided THEN pr + COLLISION_REWARD10 ELSE pr + SURVIVAL_REWARD10

\* the reward of step
StepReward(collided, pr) ==
    IF collided THEN COLLISION_REWARD10 ELSE pr + SURVIVAL_REWARD10

\* mutant: the collision check reads the positions the step started from
StepCollision_Before(s0, obs0, s1, obs1) == check_collision(s0, obs0)

\* terminated = check_collision(self.ship, self.obstacles) of step, run on the
\* ship s1 and the obstacles obs1 that the updates of the step have left
StepCollision(s0, obs0, s1, obs1) == check_collision(s1, obs1)

\* FluidHorizonEnv.step(action), explored while the episode has fewer than
\* maxTicks steps and the ship's speed stays within maxSpeed2.  Before the
\* first reset self.ship is None and step raises AttributeError.
StepDrawing(action, maxTicks, maxSpeed2, choices) ==
    /\ ship.made
    /\ ticks < maxTicks
    /\ LET s == ShipUpdate(ship, action = 1)
           moved == AdvanceAll(obstacles)
           k == PassCount(obstacles)
       IN  /\ Abs(s.v2) <= maxSpeed2
           /\ ship' = s
           /\ IF HeadOffScreen(moved)
              THEN /\ \E c \in choices :
                         /\ obstacles' = Recycle(moved, c, created + 1)
                         /\ Draw(<<c>>)
                   /\ recycled' = recycled \cup
                         {[id |-> moved[1].id, passed |-> moved[1].passed]}
                   /\ created' = created + 1
              ELSE /\ obstacles' = moved
                   /\ UNCHANGED <<recycled, created, drawn>>
           /\ passed_obstacles' = passed_obstacles + k
           /\ score' = score + k
           /\ pass_reward10' = k * PASS_REWARD10
           /\ terminated' = StepCollision(ship, obstacles, ship', obstacles')
           /\ reward10' = StepReward(terminated', pass_reward10')
           /\ observation' = get_obs(ship', obstacles')
           /\ info' = get_info(score', passed_obstacles')
           /\ lastOp' = "step"
           /\ ticks' = ticks + 1
           /\ reset_from' = NoCall
           /\ thrusts' = thrusts + action
           /\ RenderCall
           /\ UNCHANGED <<render_mode, envB, retB, solo, scriptVars>>

StepWithin(action, maxTicks, maxSpeed2) ==
    StepDrawing(action, maxTicks, maxSpeed2, GapChoices)

Step(action) == StepWithin(action, MaxTicks, MaxSpeed2)

FlightStep(action) == StepWithin(action, FlightTicks, FlightSpeed2)

\* a direct call of FluidHorizonEnv._get_obs by the caller
GetObs ==
    /\ ship.made
    /\ observation' = get_obs(ship, obstacles)
    /\ lastOp' = "get_obs"
    /\ raised' = FALSE
    /\ UNCHANGED <<ship, obstacles, score, passed_obstacles, reward10,
                   terminated, info, pass_reward10, recycled, created, ticks,
                   reset_from, thrusts, render_mode, screen, display, fonts,
                   twinVars, scriptVars>>

(* The calls on an environment held as a value *)
\* FluidHorizonEnv.reset on the environment of process p, the generator
\* giving the gap centres cs
ProcReset(p, cs) ==
    LET e == [p.env EXCEPT !.ship = NewShip,
                           !.obstacles = InitialObstacles(cs),
                           !.score = 0,
                           !.passed_obstacles = 0,
                           !.ticks = 0,
                           !.created = NUM_OBSTACLES]
        r == RenderOutcome(e.render_mode, e.screen, p.fonts)
    IN  [p EXCEPT
           !.env = [e EXCEPT !.screen = r.screen],
           !.ret = [op |-> "reset", raised |-> r.raised,
                    observation |-> ResetObservation(e.ship, e.obstacles),
                    reward10 |-> 0, terminated |-> FALSE,
                    info |-> get_info(e.score, e.passed_obstacles)],
           !.display = IF r.opened THEN "open" ELSE @]

\* FluidHorizonEnv.step(action) on the environment of process p, the
\* generator giving c if the step recycles
ProcStep(p, action, c) ==
    LET e == p.env
        s == ShipUpdate(e.ship, action = 1)
        moved == AdvanceAll(e.obstacles)
        k == PassCount(e.obstacles)
        obs == IF HeadOffScreen(moved)
               THEN Recycle(moved, c, e.created + 1) ELSE moved
        hit == StepCollision(e.ship, e.obstacles, s, obs)
        r == RenderOutcome(e.render_mode, e.screen, p.fonts)
    IN  [p EXCEPT
           !.env = [e EXCEPT !.ship = s,
                             !.obstacles = obs,
                             !.score = @ + k,
                             !.passed_obstacles = @ + k,
                             !.ticks = @ + 1,
                             !.created = IF HeadOffScreen(moved)
                                         THEN @ + 1 ELSE @,
                             !.screen = r.screen],
           !.ret = [op |-> "step", raised |-> r.raised,
                    observation |-> get_obs(s, obs),
                    reward10 |-> StepReward(hit, k * PASS_REWARD10),
                    terminated |-> hit,
                    info |-> get_info(e.score + k, e.passed_obstacles + k)],
           !.display = IF r.opened THEN "open" ELSE @]

\* FluidHorizonEnv.close on the environment of process p
ProcClose(p) ==
    LET c == CloseOutcome(p.env.screen)
    IN  [p EXCEPT
           !.env = [@ EXCEPT !.screen = c.screen],
           !.ret = [@ EXCEPT !.op = "close", !.raised = FALSE],
           !.display = IF c.quit THEN "closed" ELSE @,
           !.fonts = IF c.quit THEN "stale" ELSE @]

Next ==
    \/ Reset
    \/ \E action \in {0, 1} : Step(action)

\* long episodes, slow flights: the obstacle stream reaches and passes the ship
Spec == Init /\ [][Next]_vars

NextFlight ==
    \/ Reset
    \/ \E action \in {0, 1} : FlightStep(action)
    \/ GetObs

\* short episodes, fast flights, with direct calls of the encoder
SpecFlight == Init /\ [][NextFlight]_vars

(* Rendering and closing, in both render modes *)
\* a direct call of FluidHorizonEnv.render, explored once reset has made the
\* ship (before that render_mode "human" fails on self.ship.draw)
Render ==
    /\ ship.made
    /\ RenderCall
    /\ lastOp' = "render"
    /\ UNCHANGED <<simVars, render_mode, twinVars, scriptVars>>

\* FluidHorizonEnv.close; pygame.quit() closes the display under every
\* object of the process that holds its surface
Close ==
    LET c == CloseOutcome(screen)
    IN  /\ screen' = c.screen
        /\ display' = IF c.quit THEN "closed" ELSE display
        /\ fonts' = IF c.quit THEN "stale" ELSE fonts
        /\ envB' = [envB EXCEPT !.screen = IF c.quit THEN AfterQuit(@) ELSE @]
        /\ raised' = FALSE
        /\ lastOp' = "close"
        /\ UNCHANGED <<simVars, render_mode, retB, solo, drawn, scriptVars>>

RenderStep(action) == StepWithin(action, RenderTicks, FlightSpeed2)

\* FluidHorizonEnv(render_mode = "human") or FluidHorizonEnv(render_mode = None)
InitRender == \E mode \in {"human", "none"} : InitWith(mode)

NextRender ==
    \/ Reset
    \/ \E action \in {0, 1} : RenderStep(action)
    \/ Render
    \/ Close

\* short episodes in either render mode, with render and close calls
SpecRender == InitRender /\ [][NextRender]_vars

(* Two environments A and B in one process.  A is the environment of the
   variables ship, obstacles, ...; B is envB.  Both draw gap centres from the
   one generator of the `random` module and render on the one pygame display.
   solo is B in a process of its own, started from the same generator state
   and given the calls B is given. *)
\* B with the process state it runs in
SharedB ==
    [env |-> envB, ret |-> retB, display |-> display, fonts |-> fonts,
     pos |-> Len(drawn)]

\* a call on B left the shared process as q and the process of solo as qs
BCalled(q, qs) ==
    /\ envB' = q.env
    /\ retB' = q.ret
    /\ display' = q.display
    /\ fonts' = q.fonts
    /\ solo' = qs
    /\ UNCHANGED <<simVars, lastOp, raised, render_mode, scriptVars>>

\* A.reset()
TwoReset ==
    /\ Len(drawn) + NUM_OBSTACLES <= MaxDraws
    /\ Reset

\* A.step(action)
TwoStep(action) == StepWithin(action, TwoTicks, FlightSpeed2)

\* B.reset(): in the shared process the generator gives its next values cs;
\* alone, B is given the values that follow those it has consumed itself
BReset ==
    \E cs \in [1..NUM_OBSTACLES -> GapChoices] :
        /\ Len(drawn) + NUM_OBSTACLES <= MaxDraws
        /\ drawn' = drawn \o cs
        /\ LET own == SubSeq(drawn', solo.pos + 1, solo.pos + NUM_OBSTACLES)
           IN  BCalled(ProcReset(SharedB, cs),
                       [ProcReset(solo, own) EXCEPT !.pos = @ + NUM_OBSTACLES])
        /\ UNCHANGED screen

\* B.step(action), in episodes too short for a step to recycle
BStep(action) ==
    /\ envB.ship.made
    /\ envB.ticks < TwoTicks
    /\ ~HeadOffScreen(AdvanceAll(envB.obstacles))
    /\ BCalled(ProcStep(SharedB, action, 0), ProcStep(solo, action, 0))
    /\ UNCHANGED <<screen, drawn>>

\* B.close(): its pygame.quit() closes the display A draws on as well
BClose ==
    /\ BCalled(ProcClose(SharedB), ProcClose(solo))
    /\ screen' = IF CloseOutcome(envB.screen).quit
                  THEN AfterQuit(screen) ELSE screen
    /\ UNCHANGED drawn

\* A = FluidHorizonEnv() and B = FluidHorizonEnv(), both with the default
\* render_mode "human"
InitTwo == InitProcess("human", NewEnv("human"))

NextTwo ==
    \/ TwoReset
    \/ \E action \in {0, 1} : TwoStep(action)
    \/ Close
    \/ BReset
    \/ \E action \in {0, 1} : BStep(action)
    \/ BClose

\* every interleaving of calls on A with calls on B
SpecTwo == InitTwo /\ [][NextTwo]_vars

(* train.main: the choice between resuming and starting fresh *)
NoFile == [name |-> 0, zip |-> FALSE, mtime |-> 0]

\* the entries of the checkpoint directory: a name (its rank in name order),
\* whether the name matches *.zip, and the modification time
Files == [name : 1..MaxFiles, zip : BOOLEAN, mtime : 1..MaxMtime]

\* the directory in the order glob lists it: entries of distinct names
Listings ==
    {fs \in UNION {[1..n -> Files] : n \in 0..MaxFiles} :
        \A i, j \in DOMAIN fs : i # j => fs[i].name # fs[j].name}

\* glob.glob(os.path.join(CHECKPOINT_DIR, "*.zip"))
Glob(fs) == SelectSeq(fs, LAMBDA f : f.zip)

\* mutant: the checkpoint of the greatest name
Latest_ByName(cps) ==
    cps[CHOOSE i \in DOMAIN cps : \A j \in DOMAIN cps : cps[j].name <= cps[i].name]

\* max(checkpoints, key=os.path.getmtime): the first entry of the list that
\* no entry exceeds in modification time
Latest(cps) ==
    cps[CHOOSE i \in DOMAIN cps :
            /\ \A j \in DOMAIN cps : cps[j].mtime <= cps[i].mtime
            /\ \A j \in 1..(i - 1) : cps[j].mtime < cps[i].mtime]

\* the script has made its directories and its headless environment
InitTrain ==
    /\ InitEnv("none", NoEnv)
    /\ evaluation = NoEvaluation
    /\ train \in [pc : {"scan"}, files : Listings, checkpoints : {<<>>},
                   latest_checkpoint : {NoFile}, model : {"none"},
                   loaded_from : {NoFile}, reset_num_timesteps : {FALSE}]

\* checkpoints = glob.glob(...)
TrainScan ==
    /\ train.pc = "scan"
    /\ train' = [train EXCEPT !.pc = "select",
                              !.checkpoints = Glob(train.files)]
    /\ UNCHANGED <<simVars, lastOp, render_mode, screen, display, fonts,
                   raised, twinVars, evaluation>>

\* if checkpoints: latest_checkpoint = max(...); model = PPO.load(...)
TrainResume ==
    /\ train.pc = "select"
    /\ Len(train.checkpoints) > 0
    /\ train' = [train EXCEPT !.pc = "learn",
                              !.latest_checkpoint = Latest(train.checkpoints),
                              !.model = "loaded",
                              !.loaded_from = Latest(train.checkpoints)]
    /\ UNCHANGED <<simVars, lastOp, render_mode, screen, display, fonts,
                   raised, twinVars, evaluation>>

\* else: model = PPO(policy, env, ...)
TrainFresh ==
    /\ train.pc = "select"
    /\ Len(train.checkpoints) = 0
    /\ train' = [train EXCEPT !.pc = "learn", !.model = "new"]
    /\ UNCHANGED <<simVars, lastOp, render_mode, screen, display, fonts,
                   raised, twinVars, evaluation>>

\* model.learn(..., reset_num_timesteps = latest_checkpoint is None)
TrainLearn ==
    /\ train.pc = "learn"
    /\ train' = [train EXCEPT
                    !.pc = "learning",
                    !.reset_num_timesteps = (train.latest_checkpoint = NoFile)]
    /\ UNCHANGED <<simVars, lastOp, render_mode, screen, display, fonts,
                   raised, twinVars, evaluation>>

NextTrain == TrainScan \/ TrainResume \/ TrainFresh \/ TrainLearn

\* the start of train.main over any checkpoint directory
SpecTrain == InitTrain /\ [][NextTrain]_vars

(* evaluate_model of evaluate_mertrics.py and of test_model.py *)
\* mutant: a missing file leaves an untrained model to evaluate
LoadOutcome_Fallback(script, file_exists) ==
    IF file_exists
    THEN [pc |-> "loaded", model |-> "loaded",
          printed |-> IF script = "test_model" THEN "loaded" ELSE ""]
    ELSE [pc |-> "loaded", model |-> "untrained", printed |-> ""]

\* model = PPO.load(model_path).  A missing file raises FileNotFoundError:
\* test_model.py catches it, prints the error and returns;
\* evaluate_mertrics.py lets it leave evaluate_model.
LoadOutcome(script, file_exists) ==
    IF file_exists
    THEN [pc |-> "loaded", model |-> "loaded",
          printed |-> IF script = "test_model" THEN "loaded" ELSE ""]
    ELSE IF script = "test_model"
         THEN [pc |-> "returned", model |-> "none", printed |-> "not found"]
         ELSE [pc |-> "raised", model |-> "none", printed |-> ""]

\* a call of evaluate_model; test_model.py takes no max_steps (0 here)
InitEval ==
    /\ InitEnv("none", NoEnv)
    /\ train = NoTrain
    /\ \E script \in {"evaluate_mertrics", "test_model"} :
       \E file_exists \in BOOLEAN :
       \E n \in 1..MaxEpisodes :
       \E m \in 1..MaxEvalSteps :
          evaluation =
              [pc |-> "load", script |-> script, file_exists |-> file_exists,
               num_episodes |-> n,
               max_steps |-> IF script = "test_model" THEN 0 ELSE m,
               model |-> "none", printed |-> "", env |-> "none",
               episode |-> 0, steps |-> 0]

EvalUnchanged ==
    UNCHANGED <<simVars, lastOp, render_mode, screen, display, fonts, raised,
                twinVars, train>>

\* model = PPO.load(model_path)
EvalLoad ==
    /\ evaluation.pc = "load"
    /\ LET r == LoadOutcome(evaluation.script, evaluation.file_exists)
       IN  evaluation' = [evaluation EXCEPT !.pc = r.pc, !.model = r.model,
                                            !.printed = r.printed]
    /\ EvalUnchanged

\* env = FluidHorizonEnv(render_mode = ...)
EvalMakeEnv ==
    /\ evaluation.pc = "loaded"
    /\ evaluation' =
          [evaluation EXCEPT
             !.pc = "episodes",
             !.env = IF evaluation.script = "test_model"
                     THEN "human" ELSE "headless"]
    /\ EvalUnchanged

\* for episode in range(num_episodes): obs, info = env.reset()
EvalReset ==
    /\ evaluation.pc = "episodes"
    /\ evaluation.episode < evaluation.num_episodes
    /\ evaluation' = [evaluation EXCEPT !.pc = "steps", !.steps = 0]
    /\ EvalUnchanged

\* one turn of the while loop: env.step returned done; the episode ends when
\* done, or in evaluate_mertrics.py when steps reaches max_steps (the steps
\* of test_model.py are explored up to MaxEvalSteps)
EvalStep(done) ==
    /\ evaluation.pc = "steps"
    /\ evaluation.steps < MaxEvalSteps
    /\ LET n == evaluation.steps + 1
           over == done \/ (evaluation.script = "evaluate_mertrics"
                               /\ n >= evaluation.max_steps)
       IN  evaluation' =
               [evaluation EXCEPT
                  !.steps = n,
                  !.pc = IF over THEN "episodes" ELSE "steps",
                  !.episode = IF over THEN @ + 1 ELSE @]
    /\ EvalUnchanged

\* env.close() and the summary
EvalClose ==
    /\ evaluation.pc = "episodes"
    /\ evaluation.episode = evaluation.num_episodes
    /\ evaluation' = [evaluation EXCEPT !.pc = "returned", !.env = "closed"]
    /\ EvalUnchanged

NextEval ==
    \/ EvalLoad
    \/ EvalMakeEnv
    \/ EvalReset
    \/ \E done \in BOOLEAN : EvalStep(done)
    \/ EvalClose

\* evaluate_model of either script, with and without the model file
SpecEval == InitEval /\ [][NextEval]_vars

(* One episode in which step keeps being called *)
\* the reset that opens the episode
LiveReset ==
    /\ lastOp = "init"
    /\ ResetDrawing(LiveGapChoices)

LiveStep(action) == StepDrawing(action, LiveTicks, LiveSpeed2, LiveGapChoices)

NextLive ==
    \/ LiveReset
    \/ \E action \in {0, 1} : LiveStep(action)

\* the caller never stops calling step: the loop of __main__ and of the
\* evaluation scripts
SpecLive ==
    /\ Init
    /\ [][NextLive]_vars
    /\ WF_vars(\E action \in {0, 1} : LiveStep(action))

(* The encoder as a function of any ship and any obstacle list *)
\* obstacle x values on both sides of x + width = ship.x, and one far ahead
EncXs == {SHIP_X - OBSTACLE_WIDTH - OBSTACLE_SPEED, SHIP_X - OBSTACLE_WIDTH,
          SHIP_X - OBSTACLE_WIDTH + OBSTACLE_SPEED, SHIP_X + WIDTH \div 2}

EncObstacles ==
    {[id |-> 0, x |-> x, gap_center_y |-> c,
      passed |-> (x + OBSTACLE_WIDTH < SHIP_X)] : x \in EncXs, c \in GapChoices}

EncLists == UNION {[1..n -> EncObstacles] : n \in 0..EncMaxLen}

\* an environment whose fields a caller has set: a ship as Ship() makes it or
\* after one update, and any list of obstacles
InitEnc ==
    /\ ship \in {NewShip, ShipUpdate(NewShip, TRUE), ShipUpdate(NewShip, FALSE)}
    /\ obstacles \in EncLists
    /\ score = 0
    /\ passed_obstacles = 0
    /\ observation = NoObs
    /\ reward10 = 0
    /\ terminated = FALSE
    /\ info = get_info(0, 0)
    /\ lastOp = "init"
    /\ pass_reward10 = 0
    /\ recycled = {}
    /\ created = Len(obstacles)
    /\ ticks = 0
    /\ reset_from = NoCall
    /\ thrusts = 0
    /\ render_mode = "none"
    /\ screen = "none"
    /\ display = "closed"
    /\ fonts = "valid"
    /\ raised = FALSE
    /\ envB = NoEnv
    /\ retB = NoRet
    /\ solo = NoSolo
    /\ drawn = <<>>
    /\ train = NoTrain
    /\ evaluation = NoEvaluation

NextEnc == GetObs

SpecEnc == InitEnc /\ [][NextEnc]_vars

---------------------------------------------------------------------------
(* Claims *)

\* C1: after every Ship.update (hence after every step) ship.y lies in
\* [0, HEIGHT - ship.height], whatever the actions were.
\* Ship.update clamps rect.y only, so ship.y itself leaves the screen.
C1_ShipYClamped ==
    lastOp = "step" =>
        /\ 0 <= ship.y2
        /\ ship.y2 <= 2 * (HEIGHT - SHIP_HEIGHT)

\* C2: every observation returned by reset or step has its five components
\* inside [-1, 1], the bounds observation_space declares.
C2_ObservationInBox ==
    lastOp \in {"reset", "step"} =>
        /\ Abs(observation.pos) <= 2 * (HEIGHT \div 2)
        /\ Abs(observation.vel) <= 2 * VEL_NORM
        /\ Abs(observation.dist) <= WIDTH
        /\ Abs(observation.gap_y) <= HEIGHT \div 2
        /\ Abs(observation.gap_h) <= HEIGHT

\* C3: once a step has returned terminated = True, every later step made
\* without a reset in between returns terminated = True as well.
C3_TerminatedIsAbsorbing ==
    [][(terminated /\ lastOp' = "step") => terminated']_vars

\* C4: on a step in which check_collision is true the reward is exactly
\* -100.0 and terminated is True, whatever the obstacle loop had accumulated.
C4_CollisionPenalty ==
    (lastOp = "step" /\ check_collision(ship, obstacles)) =>
        /\ reward10 = -1000
        /\ terminated

\* C4 witness: a step that both marked an obstacle passed and collided
C4_Witness ==
    /\ lastOp = "step"
    /\ pass_reward10 > 0
    /\ check_collision(ship, obstacles)
    /\ reward10 = -1000

\* the ids of the obstacles, active or recycled, whose passed flag is set
MarkedIds ==
    {obstacles[i].id : i \in {j \in DOMAIN obstacles : obstacles[j].passed}}
        \cup {r.id : r \in {q \in recycled : q.passed}}

\* the ids of the obstacles created since the last reset
KnownIds == {obstacles[i].id : i \in DOMAIN obstacles} \cup {r.id : r \in recycled}

\* C5: within an episode an obstacle is marked passed at most once and the
\* flag never reverts; score and passed_obstacles grow by one exactly when
\* a flag is set, so both equal the number of obstacles, active or already
\* recycled, that are marked passed.
C5_PassedOnce ==
    /\ [](/\ score = Cardinality(MarkedIds)
          /\ passed_obstacles = score
          /\ Cardinality(KnownIds) = created
          /\ info = get_info(Cardinality(MarkedIds), Cardinality(MarkedIds)))
    /\ [][lastOp' = "step" =>
            /\ MarkedIds \subseteq MarkedIds'
            /\ score' - score = Cardinality(MarkedIds' \ MarkedIds)
            /\ passed_obstacles' - passed_obstacles
                   = Cardinality(MarkedIds' \ MarkedIds)]_vars

\* C5 witness: a marked obstacle has been recycled and the counters stand at 1
C5_Witness ==
    /\ \E r \in recycled : r.passed
    /\ score = 1
    /\ passed_obstacles = 1

\* C6: after reset and after every step the list holds exactly 5 obstacles,
\* each exactly WIDTH/2 = 400 right of the one before it (so x never
\* decreases along the list), and a recycling step appends the new obstacle
\* 400 right of the previous tail.
C6_StreamSpacing ==
    /\ [](lastOp \in {"reset", "step"} =>
            /\ Len(obstacles) = 5
            /\ \A i \in 1..(Len(obstacles) - 1) :
                  /\ obstacles[i].x <= obstacles[i + 1].x
                  /\ obstacles[i + 1].x = obstacles[i].x + 400)
    /\ [][(lastOp' = "step" /\ created' # created) =>
            /\ Len(obstacles') = Len(obstacles)
            /\ obstacles'[Len(obstacles') - 1].id = obstacles[Len(obstacles)].id
            /\ obstacles'[Len(obstacles')].id = created'
            /\ obstacles'[Len(obstacles')].x
                   = obstacles'[Len(obstacles') - 1].x + 400]_vars

\* C6 witness: recycling has happened; the appended obstacle is the tail
C6_Witness ==
    /\ lastOp = "step"
    /\ created = NUM_OBSTACLES + 1
    /\ obstacles[Len(obstacles)].id = created
    /\ obstacles[1].id = 2

\* the indices of the obstacles that satisfy x + width > ship.x
Ahead == {i \in DOMAIN obstacles : obstacles[i].x + OBSTACLE_WIDTH > SHIP_X}

\* the first of them in list order
FirstAhead == CHOOSE i \in Ahead : \A j \in Ahead : i <= j

\* C7: for any ship and any obstacle list, components 3-5 of _get_obs are
\* (1.0, 0.0, 0.0) if and only if no obstacle satisfies x + width > ship.x;
\* otherwise they are ((o.x - ship.x)/WIDTH, (o.gap_center_y - 300)/300,
\* o.gap_height/HEIGHT) for o the first obstacle in list order that does.
C7_NextObstacleEncoding ==
    lastOp = "get_obs" =>
        /\ (/\ observation.dist = WIDTH
            /\ observation.gap_y = 0
            /\ observation.gap_h = 0) <=> (Ahead = {})
        /\ Ahead # {} =>
              /\ observation.dist = obstacles[FirstAhead].x - SHIP_X
              /\ observation.gap_y = obstacles[FirstAhead].gap_center_y - 300
              /\ observation.gap_h = GAP_HEIGHT

\* C7 witness: the list is not empty, every obstacle is behind the ship, one
\* of them with its right edge level with ship.x, and the sentinel came back
C7_Witness ==
    /\ lastOp = "get_obs"
    /\ Len(obstacles) >= 2
    /\ Ahead = {}
    /\ \E i \in DOMAIN obstacles : obstacles[i].x + OBSTACLE_WIDTH = SHIP_X
    /\ observation.dist = WIDTH /\ observation.gap_y = 0 /\ observation.gap_h = 0

\* the half-open intervals [a1, a2) and [b1, b2) intersect
Meets(a1, a2, b1, b2) == Max(a1, b1) < Min(a2, b2)

\* a ship box whose top is at height top2 (in half-pixels) overlaps the
\* rectangle r (in pixels) under half-open interval intersection
BoxOverlaps(top2, r) ==
    /\ Meets(SHIP_X, SHIP_X + SHIP_WIDTH, r.x, r.x + r.w)
    /\ Meets(top2, top2 + 2 * SHIP_HEIGHT, 2 * r.y, 2 * (r.y + r.h))

\* a ship box whose top is at top2 touches a screen edge or overlaps the top
\* or bottom rectangle of some obstacle
BoxCollides(top2) ==
    \/ top2 <= 0
    \/ top2 + 2 * SHIP_HEIGHT >= 2 * HEIGHT
    \/ \E i \in DOMAIN obstacles :
          BoxOverlaps(top2, TopRect(obstacles[i]))
              \/ BoxOverlaps(top2, BottomRect(obstacles[i]))

\* C8 as stated: check_collision is true if and only if the box
\* x..x+width, y..y+height at the ship's position ship.y touches the top or
\* bottom screen edge or overlaps an obstacle rectangle.
C8_CollisionAtShipY ==
    lastOp = "step" => (terminated <=> BoxCollides(ship.y2))

\* C8 amended: check_collision is true if and only if ship.rect, whose y is
\* ship.y truncated to an integer and clamped into [0, HEIGHT - height],
\* touches the top or bottom screen edge or overlaps, under half-open
\* interval intersection, the top or bottom rectangle of an obstacle;
\* touching an edge of a rectangle, or a zero-height rectangle, is no
\* collision.
C8_CollisionAtShipRect ==
    lastOp = "step" =>
        /\ terminated <=> BoxCollides(2 * ship.rect_y)
        /\ check_collision(ship, obstacles) <=> BoxCollides(2 * ship.rect_y)

\* C8 witness: the ship is level with an obstacle in x, its rect bottom
\* touches the top of the bottom rectangle, the top rectangle has height 0
\* or ends above the ship, and the step reported no collision
C8_Witness ==
    /\ lastOp = "step"
    /\ ~terminated
    /\ \E i \in DOMAIN obstacles :
          /\ Meets(SHIP_X, SHIP_X + SHIP_WIDTH,
                   obstacles[i].x, obstacles[i].x + OBSTACLE_WIDTH)
          /\ ship.rect_y + SHIP_HEIGHT = BottomRect(obstacles[i]).y

\* C9: _get_obs is a function of the simulation state: called right after
\* reset (or after a step, or after itself) it returns the observation that
\* call returned, and it changes no ship, obstacle or score state.
C9_EncoderIsPure ==
    [][lastOp' = "get_obs" =>
          /\ observation' = observation
          /\ ship' = ship
          /\ obstacles' = obstacles
          /\ score' = score
          /\ passed_obstacles' = passed_obstacles]_vars

\* C9 witness: _get_obs was called right after a reset that followed a
\* terminal step
C9_Witness ==
    /\ lastOp = "get_obs"
    /\ reset_from.made
    /\ reset_from.terminated
    /\ ticks = 0
    /\ observation = [pos |-> 0, vel |-> 0, dist |-> 700,
                      gap_y |-> obstacles[1].gap_center_y - 300, gap_h |-> 200]

\* C10: reset, called from any state, leaves a fresh running episode: ship at
\* y = 300 with velocity 0, both counters 0, exactly 5 unpassed obstacles at
\* x = 800, 1200, 1600, 2000, 2400 with gap centres in [100, 500], no
\* collision, and info {score: 0, passed_obstacles: 0}.
C10_ResetIsFresh ==
    lastOp = "reset" =>
        /\ ship.y2 = 2 * 300 /\ ship.v2 = 0 /\ ship.rect_y = 300
        /\ score = 0 /\ passed_obstacles = 0
        /\ Len(obstacles) = 5
        /\ \A i \in 1..5 :
              /\ obstacles[i].x = 800 + (i - 1) * 400
              /\ ~obstacles[i].passed
              /\ GAP_HEIGHT \div 2 <= obstacles[i].gap_center_y
              /\ obstacles[i].gap_center_y <= HEIGHT - GAP_HEIGHT \div 2
        /\ recycled = {}
        /\ ~check_collision(ship, obstacles)
        /\ ~terminated
        /\ info = [score |-> 0, passed_obstacles |-> 0]

\* C10 witness: reset was called after a step that had returned
\* terminated = True, in an episode that had scored
C10_Witness ==
    /\ lastOp = "reset"
    /\ reset_from.made
    /\ reset_from.terminated
    /\ reset_from.score > 0
    /\ score = 0

\* the gap centres of a list of obstacles, in list order
GapCentres(obs) == [i \in DOMAIN obs |-> obs[i].gap_center_y]

\* C11: two environments of one process share no mutable state: whatever
\* calls are made on A, every call on B gives what it gives when B runs
\* alone -- the same return values or the same failure -- and leaves B with
\* obstacles of the same gap centres and a screen in the same condition.
C11_InstancesIndependent ==
    /\ retB = solo.ret
    /\ GapCentres(envB.obstacles) = GapCentres(solo.env.obstacles)
    /\ envB.screen = solo.env.screen

\* what the last call on the environment gave its caller
Returned ==
    [op |-> lastOp, raised |-> raised, observation |-> observation,
     reward10 |-> reward10, terminated |-> terminated, info |-> info]

\* the environment in its present simulation state, had it been built with
\* render_mode = None in a process of its own
Headless ==
    [env |-> [exists |-> TRUE, render_mode |-> "none", screen |-> "none",
              ship |-> ship, obstacles |-> obstacles, score |-> score,
              passed_obstacles |-> passed_obstacles, ticks |-> ticks,
              created |-> created],
     ret |-> NoRet, display |-> "closed", fonts |-> "valid", pos |-> 0]

\* the simulation state of the environment
Simulation ==
    [ship |-> ship, obstacles |-> obstacles, score |-> score,
     passed_obstacles |-> passed_obstacles]

\* the simulation state of the environment of process p
SimulationOf(p) ==
    [ship |-> p.env.ship, obstacles |-> p.env.obstacles,
     score |-> p.env.score, passed_obstacles |-> p.env.passed_obstacles]

\* C12: rendering does not alter the simulation.  On an environment that has
\* not been closed, in either render mode, reset and every step return what
\* the headless environment returns from the same state for the same action
\* and the same gap draws, and leave the simulation state it leaves; a
\* render call changes no ship, obstacle, score or passed_obstacles.
C12_RenderingIsTransparent ==
    [][fonts = "valid" =>
          /\ lastOp' = "reset" =>
                LET cs == [i \in 1..NUM_OBSTACLES |->
                              obstacles'[i].gap_center_y]
                    q == ProcReset(Headless, cs)
                IN  Returned' = q.ret /\ Simulation' = SimulationOf(q)
          /\ lastOp' = "step" =>
                \E a \in {0, 1} : \E c \in GapChoices :
                    LET q == ProcStep(Headless, a, c)
                    IN  /\ thrusts' = thrusts + a
                        /\ Returned' = q.ret
                        /\ Simulation' = SimulationOf(q)
          /\ lastOp' = "render" =>
                UNCHANGED <<ship, obstacles, score, passed_obstacles>>]_vars

\* C12 witness: a step of a rendering environment, on an open display, that
\* returned a collision-free observation after a thrust
C12_Witness ==
    /\ render_mode = "human"
    /\ lastOp = "step"
    /\ screen = "live"
    /\ display = "open"
    /\ ~raised
    /\ ticks = RenderTicks
    /\ thrusts = 1
    /\ reward10 = SURVIVAL_REWARD10

\* 1 + 2 + ... + n
RECURSIVE SumTo(_)
SumTo(n) == IF n = 0 THEN 0 ELSE n + SumTo(n - 1)

\* C13 as stated: from ship.y = 300 with velocity 0, after n <= 10 ticks of
\* Ship.update without thrust the velocity is n * 0.35 and y is 300 plus the
\* sum of the velocities of ticks 1..n, 300 + 0.35 * (1 + ... + n).
C13_FreeFallAtGravity035 ==
    (ship.made /\ thrusts = 0 /\ ticks <= 10) =>
        /\ 10 * ship.v2 = 7 * ticks
        /\ 10 * ship.y2 = 10 * 2 * 300 + 7 * SumTo(ticks)

\* C13 amended: GRAVITY is 0.5.  From ship.y = 300 with velocity 0, after
\* n <= 10 ticks of Ship.update without thrust the velocity is n * 0.5 and y
\* is 300 plus the sum of the velocities of ticks 1..n (gravity is added to
\* the velocity first, then the velocity to y); y stays inside the screen,
\* so rect.y is y truncated and no clamp applies.
C13_FreeFallAtGravity05 ==
    (ship.made /\ thrusts = 0 /\ ticks <= 10) =>
        /\ ship.v2 = GRAVITY2 * ticks
        /\ ship.y2 = 2 * 300 + GRAVITY2 * SumTo(ticks)
        /\ 0 <= ship.y2 /\ ship.y2 <= 2 * (HEIGHT - SHIP_HEIGHT)
        /\ ship.rect_y = RectInt(ship.y2)

\* C13 witness: the tenth tick of a fall without thrust: velocity 5.0,
\* y = 327.5
C13_Witness ==
    /\ lastOp = "step"
    /\ thrusts = 0
    /\ ticks = 10
    /\ ship.v2 = 10
    /\ ship.y2 = 655

\* the entries of the checkpoint directory whose name matches *.zip
ZipFiles == {train.files[i] : i \in {j \in DOMAIN train.files : train.files[j].zip}}

\* C14: train.main resumes if and only if the checkpoint directory holds a
\* *.zip file; it then loads a *.zip file that none exceeds in modification
\* time and learns with reset_num_timesteps False; with no *.zip file it
\* builds a new model and learns with reset_num_timesteps True.
C14_ResumeFromLatest ==
    train.pc \in {"learn", "learning"} =>
        /\ (train.model = "loaded") <=> (ZipFiles # {})
        /\ (train.model = "new") <=> (ZipFiles = {})
        /\ ZipFiles # {} =>
              /\ train.loaded_from \in ZipFiles
              /\ \A f \in ZipFiles : f.mtime <= train.loaded_from.mtime
        /\ train.pc = "learning" =>
              (train.reset_num_timesteps <=> (ZipFiles = {}))

\* C14 witness: training resumed from the most recently modified *.zip file
\* although another *.zip file has a greater name and a file that is no
\* *.zip is as new and has a greater name too
C14_Witness ==
    /\ train.pc = "learning"
    /\ train.model = "loaded"
    /\ ~train.reset_num_timesteps
    /\ \E f \in ZipFiles :
          /\ f.name > train.loaded_from.name
          /\ f.mtime < train.loaded_from.mtime
    /\ \E i \in DOMAIN train.files :
          /\ ~train.files[i].zip
          /\ train.files[i].name > train.loaded_from.name
          /\ train.files[i].mtime >= train.loaded_from.mtime

\* C15: when the model file is missing, evaluate_model loads no model,
\* creates no environment and runs no episode, and it ends by reporting the
\* failure: the error message of test_model.py, or the FileNotFoundError
\* that leaves evaluate_model of evaluate_mertrics.py.
C15_MissingModelAborts ==
    ~evaluation.file_exists =>
        /\ evaluation.model = "none"
        /\ evaluation.env = "none"
        /\ evaluation.episode = 0 /\ evaluation.steps = 0
        /\ evaluation.pc \in {"load", "returned", "raised"}
        /\ evaluation.pc = "returned" => evaluation.printed = "not found"
        /\ evaluation.pc = "raised" => evaluation.script = "evaluate_mertrics"

\* C15 witness: evaluate_model of evaluate_mertrics.py has met a missing file
C15_Witness ==
    /\ evaluation.script = "evaluate_mertrics"
    /\ ~evaluation.file_exists
    /\ evaluation.pc = "raised"
    /\ evaluation.env = "none"

\* C16: close is idempotent.  Every close call leaves screen None and the
\* display closed, raises nothing and leaves the simulation alone; on an
\* environment whose screen is None (never rendered, or closed already) it
\* releases nothing; and a close that follows a close changes no state.
C16_CloseIsIdempotent ==
    [][lastOp' = "close" =>
          /\ screen' = "none"
          /\ display' = "closed"
          /\ ~raised'
          /\ UNCHANGED <<ship, obstacles, score, passed_obstacles>>
          /\ screen = "none" => UNCHANGED <<display, fonts>>
          /\ lastOp = "close" =>
                UNCHANGED <<screen, display, fonts, simVars, render_mode>>]_vars

\* C16 witness: a close that released the display a step had drawn on
C16_Witness ==
    /\ lastOp = "close"
    /\ render_mode = "human"
    /\ ticks > 0
    /\ screen = "none"
    /\ display = "closed"
    /\ fonts = "stale"

\* C17: in every step the collision check runs on the ship and the obstacles
\* as the updates of that same step left them: the ship is one Ship.update
\* ahead of where the step started, every obstacle still in the list is one
\* Obstacle.update ahead, terminated is True exactly when check_collision
\* holds on these positions, the observation encodes the same positions, and
\* the reward is fixed from that terminated.
C17_CollisionAfterUpdates ==
    [][lastOp' = "step" =>
          /\ \E a \in {0, 1} : ship' = ShipUpdate(ship, a = 1)
          /\ \A i \in DOMAIN obstacles' : \A j \in DOMAIN obstacles :
                obstacles'[i].id = obstacles[j].id =>
                    obstacles'[i].x = obstacles[j].x - OBSTACLE_SPEED
          /\ terminated' <=> check_collision(ship', obstacles')
          /\ observation' = get_obs(ship', obstacles')
          /\ observation'.pos = ship'.y2 - 2 * 300
          /\ terminated' <=> (reward10' = COLLISION_REWARD10)]_vars

\* C17 witness: a collision with an obstacle that reached the ship in this
\* very step: before the step its left edge only touched the ship's right
\* edge
C17_Witness ==
    /\ lastOp = "step"
    /\ terminated
    /\ ship.rect_y > 0
    /\ ship.rect_y + SHIP_HEIGHT < HEIGHT
    /\ \E i \in DOMAIN obstacles :
          obstacles[i].x = SHIP_X + SHIP_WIDTH - OBSTACLE_SPEED

\* the ids of a list of obstacles, in list order
Ids(obs) == [i \in DOMAIN obs |-> obs[i].id]

\* C18: the head obstacle is removed in the step in which its right edge
\* moves past the left screen edge (x + width < 0) and not before; a step
\* removes at most one obstacle, the head, and appends at most one, at the
\* tail; after every step no obstacle lies entirely left of the screen.
C18_HeadRecycling ==
    /\ [](lastOp = "step" =>
            \A i \in DOMAIN obstacles : obstacles[i].x + OBSTACLE_WIDTH >= 0)
    /\ [][lastOp' = "step" =>
            /\ created' - created \in {0, 1}
            /\ (created' # created) <=>
                   (obstacles[1].x - OBSTACLE_SPEED + OBSTACLE_WIDTH < 0)
            /\ IF created' # created
               THEN /\ obstacles[1].x + OBSTACLE_WIDTH >= 0
                    /\ Ids(obstacles') = Append(Tail(Ids(obstacles)), created')
               ELSE Ids(obstacles') = Ids(obstacles)]_vars

\* C18 witness: the right edge of the head is level with the left screen
\* edge and the head is still in the list
C18_Witness ==
    /\ lastOp = "step"
    /\ created = NUM_OBSTACLES
    /\ obstacles[1].id = 1
    /\ obstacles[1].x + OBSTACLE_WIDTH = 0

\* C19: on every step without collision the reward is 0.1 + 25.0 * k, k the
\* number of obstacles newly marked passed in that step; k is at most 1 in
\* every step, so the reward of a step without collision is 0.1 or 25.1.
C19_SurvivalAndPassReward ==
    [][lastOp' = "step" =>
          LET k == Cardinality(MarkedIds' \ MarkedIds)
          IN  /\ k <= 1
              /\ ~terminated' =>
                    /\ reward10' = SURVIVAL_REWARD10 + PASS_REWARD10 * k
                    /\ reward10' \in {1, 251}]_vars

\* C19 witness: a step that marked an obstacle passed without colliding
C19_Witness ==
    /\ lastOp = "step"
    /\ ~terminated
    /\ reward10 = 251
    /\ \E i \in DOMAIN obstacles : obstacles[i].passed

\* C20: after reset and after every step some obstacle satisfies
\* x + width > ship.x, the first such obstacle is the first or the second of
\* the list, the scan of _get_obs finds it, and the observation is not the
\* sentinel (1.0, 0.0, 0.0).
C20_ObstacleAlwaysAhead ==
    lastOp \in {"reset", "step"} =>
        /\ Ahead # {}
        /\ FirstAhead \in {1, 2}
        /\ NextObstacleFrom(obstacles, 1) = FirstAhead
        /\ observation.dist = obstacles[FirstAhead].x - SHIP_X
        /\ observation.dist < WIDTH
        /\ observation.gap_h = GAP_HEIGHT

\* C20 witness: the head is behind the ship, its right edge level with
\* ship.x less one step, and the second obstacle is the one encoded
C20_Witness ==
    /\ lastOp = "step"
    /\ obstacles[1].x + OBSTACLE_WIDTH = SHIP_X - OBSTACLE_SPEED
    /\ FirstAhead = 2
    /\ observation.dist = obstacles[2].x - SHIP_X

\* where the i-th obstacle created since reset was created: the obstacles of
\* reset and the recycled ones follow each other WIDTH // 2 apart
CreatedAt(i) == WIDTH + (i - 1) * (WIDTH \div 2)

\* the obstacles created so far that n steps have carried behind the ship
BehindAfter(n) ==
    {i \in 1..created :
        CreatedAt(i) - n * OBSTACLE_SPEED + OBSTACLE_WIDTH < SHIP_X}

\* C21: the score does not depend on the actions: after the n-th step that
\* follows reset, score and passed_obstacles are the number of obstacles that
\* n steps carry behind the ship, whatever the actions were, wherever the
\* ship is and whether or not a step has returned terminated = True; so any
\* two action sequences of the same length leave the same score.
C21_ScoreIgnoresActions ==
    lastOp \in {"reset", "step"} =>
        /\ score = Cardinality(BehindAfter(ticks))
        /\ passed_obstacles = Cardinality(BehindAfter(ticks))
        /\ info = get_info(score, passed_obstacles)
        /\ MarkedIds = BehindAfter(ticks)

\* C21 witness: the score stands at 1 after a step that returned terminated
\* = True for a ship on a screen edge, in an episode with thrust
C21_Witness ==
    /\ lastOp = "step"
    /\ terminated
    /\ thrusts > 0
    /\ ship.rect_y = 0
    /\ ticks > (CreatedAt(1) + OBSTACLE_WIDTH - SHIP_X) \div OBSTACLE_SPEED + 1
    /\ score = 1

\* the step that marks the i-th obstacle passed, and the step that recycles it
PassTick(i) == (CreatedAt(i) + OBSTACLE_WIDTH - SHIP_X) \div OBSTACLE_SPEED + 1
RemoveTick(i) == (CreatedAt(i) + OBSTACLE_WIDTH) \div OBSTACLE_SPEED + 1

\* the obstacles whose recycling falls within the episode explored
LiveIds == {i \in 1..(NUM_OBSTACLES + LiveTicks) : RemoveTick(i) <= LiveTicks}

\* the ids of the obstacles in the list, and of those recycled
ActiveIds == {obstacles[i].id : i \in DOMAIN obstacles}
RecycledIds == {r.id : r \in recycled}

\* C22: while step keeps being called after reset, every obstacle in the
\* list is eventually marked passed while still in the list, every marked
\* obstacle is eventually removed by recycling, no obstacle is removed
\* unmarked, and the score goes on increasing: from every value it reaches
\* the next.
C22_EveryObstaclePassedThenRecycled ==
    /\ \A i \in LiveIds :
          (i \in ActiveIds) ~> (i \in ActiveIds /\ i \in MarkedIds)
    /\ \A i \in LiveIds :
          (i \in ActiveIds /\ i \in MarkedIds)
              ~> (i \notin ActiveIds /\ i \in RecycledIds)
    /\ [](\A r \in recycled : r.passed)
    /\ [][\A i \in ActiveIds : i \notin ActiveIds' => i \in MarkedIds]_vars
    /\ \A n \in 0..(Cardinality(LiveIds) - 1) :
          (ship.made /\ score = n) ~> (score = n + 1)

\* C22 witness: the second obstacle has been marked and recycled, after the
\* first, and the score stands at 2
C22_Witness ==
    /\ lastOp = "step"
    /\ {1, 2} \subseteq RecycledIds
    /\ \A r \in recycled : r.passed
    /\ score = 2
    /\ ticks >= RemoveTick(2)

====
